---- MODULE Spec2Model ----
(***************************************************************************)
(* Model of the certificate index of src/src/routes/attestati.py: the      *)
(* index builder (crea_indice), the index store (salva_indice /            *)
(* carica_indice), the query resolver (cerca_attestato), the request       *)
(* handlers that tie them together and the name fallback                   *)
(* (extract_name_fallback_near_pettorale).                                 *)
(*                                                                         *)
(* Strings are sequences of one-character strings, so that norm, isdigit,  *)
(* the id pattern and the substring test are computed character by         *)
(* character.  Non-ASCII characters are written by name (RSQUO, AGRAVE).   *)
(***************************************************************************)
EXTENDS Integers, Sequences, FiniteSets, TLC

VARIABLES
    doc,          \* builder: the pages of the document being indexed
    page_num,     \* builder: the page the loop of crea_indice is at
    out,          \* builder: the index under construction
    bstate,       \* builder: "loop" | "done"
    idx,          \* resolver: the index the query is resolved against
    query,        \* resolver: the raw (stripped) query
    first_only,   \* resolver: the first_only flag
    resolution,   \* resolver: the outcome of the last resolution
    pdf,          \* store: attestati.pdf of every collection folder
    index_file,   \* store: index.json of every collection folder
    pc,           \* handlers: where each request handler is
    req,          \* handlers: the request and the locals of each handler
    resp,         \* handlers: the response a handler is returning
    lines,        \* name fallback: the lines of the page text
    fallback      \* name fallback: what extract_name_fallback_near_pettorale returned

bvars == <<doc, page_num, out, bstate>>
rvars == <<idx, query, first_only, resolution>>
svars == <<pdf, index_file, pc, req, resp>>
nvars == <<lines, fallback>>
vars == <<bvars, rvars, svars, nvars>>

\* ------------------------------------------------------------------ bounds
MaxPages == 3
MaxLines == 12

\* -------------------------------------------------------------- characters
RSQUO == "rsquo"      \* U+2019, the typographic apostrophe
AGRAVE == "Agrave"    \* U+00C0
agrave == "agrave"    \* U+00E0

Digits == {"1", "2", "7"}

\* ------------------------------------------------------------------- norm
ReplaceChar(s, from, to) == [i \in DOMAIN s |-> IF s[i] \in from THEN to ELSE s[i]]

UnidecodeChar(c) ==
    CASE c = AGRAVE -> "A"
      [] c = agrave -> "a"
      [] c = RSQUO  -> "'"
      [] OTHER      -> c

Unidecode(s) == [i \in DOMAIN s |-> UnidecodeChar(s[i])]

Uppers == <<"A", "B", "C", "D", "E", "F", "G", "H", "I", "J", "K", "L", "M", "N",
           "O", "P", "Q", "R", "S", "T", "U", "V", "W", "X", "Y", "Z">>
Lowers == <<"a", "b", "c", "d", "e", "f", "g", "h", "i", "j", "k", "l", "m", "n",
           "o", "p", "q", "r", "s", "t", "u", "v", "w", "x", "y", "z">>

\* str.lower() and str.upper(), one character at a time
LowerOf == [c \in {Uppers[i] : i \in DOMAIN Uppers} |->
               Lowers[CHOOSE i \in DOMAIN Uppers : Uppers[i] = c]]
UpperOf == [c \in {Lowers[i] : i \in DOMAIN Lowers} |->
               Uppers[CHOOSE i \in DOMAIN Lowers : Lowers[i] = c]]

LowerChar(c) ==
    IF c \in DOMAIN LowerOf THEN LowerOf[c]
    ELSE IF c = AGRAVE THEN agrave ELSE c

UpperChar(c) ==
    IF c \in DOMAIN UpperOf THEN UpperOf[c]
    ELSE IF c = agrave THEN AGRAVE ELSE c

Lower(s) == [i \in DOMAIN s |-> LowerChar(s[i])]
Upper(s) == [i \in DOMAIN s |-> UpperChar(s[i])]

\* re.sub(r"\s+", " ", s): every run of whitespace becomes one space
RECURSIVE CollapseWs(_)
CollapseWs(s) ==
    IF Len(s) <= 1 THEN s
    ELSE IF s[1] = " " /\ s[2] = " " THEN CollapseWs(Tail(s))
    ELSE <<s[1]>> \o CollapseWs(Tail(s))

\* str.strip()
RECURSIVE LStrip(_)
LStrip(s) == IF s # <<>> /\ s[1] = " " THEN LStrip(Tail(s)) ELSE s

RECURSIVE RStrip(_)
RStrip(s) ==
    IF s # <<>> /\ s[Len(s)] = " " THEN RStrip(SubSeq(s, 1, Len(s) - 1)) ELSE s

Strip(s) == RStrip(LStrip(s))

norm(s) ==
    IF s = <<>> THEN <<>>
    ELSE LET s1 == ReplaceChar(s, {RSQUO}, "'")
             s2 == Unidecode(s1)
             s3 == ReplaceChar(s2, {"'", RSQUO}, " ")
         IN  Lower(Strip(CollapseWs(s3)))

\* ------------------------------------------------------------ dictionaries
\* A Python dict is a sequence of [k, v] items in insertion order.
Keys(d) == {d[i].k : i \in DOMAIN d}
Has(d, k) == k \in Keys(d)
Get(d, k) == d[CHOOSE i \in DOMAIN d : d[i].k = k].v
\* d[k] = v: an existing key keeps its position
Put(d, k, v) ==
    IF Has(d, k)
    THEN [i \in DOMAIN d |-> IF d[i].k = k THEN [k |-> k, v |-> v] ELSE d[i]]
    ELSE Append(d, [k |-> k, v |-> v])
\* d.setdefault(k, v)
SetDefault(d, k, v) == IF Has(d, k) THEN d ELSE Append(d, [k |-> k, v |-> v])

SeqElems(s) == {s[i] : i \in DOMAIN s}

EmptyIndex == [by_bib |-> <<>>, by_name |-> <<>>]

\* ------------------------------------------------------------------ pages
\* What the extractors return is None or a non-empty string; None is <<>>.
None == <<>>

B7 == <<"7">>
B12 == <<"1", "2">>
N_ALBO == <<"A", "L", " ", "B", "O">>
N_DALBO == <<"D", RSQUO, "A", "L", " ", " ", "B", "O">>
T_ALBO == <<"A", "l", " ", "B", "o">>

Bibs == {B7, B12}
NameRaws == {N_ALBO, N_DALBO}
TitleRaws == {T_ALBO}

\* A page as crea_indice sees it: whether page.get_text() raises, and otherwise
\* what extract_bib_from_text, extract_name_from_blocks / _fallback_near_pettorale
\* and the Title-Case pattern find in its text.
UnreadablePage == [throws |-> TRUE, bib |-> None, name |-> None, title |-> None]
ReadablePages ==
    { pg \in [throws : {FALSE}, bib : Bibs \cup {None}, name : NameRaws \cup {None},
              title : TitleRaws \cup {None}] : pg.name = None \/ pg.title = None }
Pages == ReadablePages \cup {UnreadablePage}

SeqsUpTo(S, n) == UNION {[1..m -> S] : m \in 1..n}
Docs == SeqsUpTo(Pages, MaxPages)

\* ---------------------------------------------------------------- builder
\* out["by_name"].setdefault(key, []); append page_num unless already there
AppendPageFront(pages, n) == IF n \in SeqElems(pages) THEN pages ELSE <<n>> \o pages

AppendPage(pages, n) == IF n \in SeqElems(pages) THEN pages ELSE Append(pages, n)

AddName(by_name, key, n) ==
    LET d == SetDefault(by_name, key, <<>>)
    IN  Put(d, key, AppendPage(Get(d, key), n))

AddBibFirstWins(by_bib, bib, n) == SetDefault(by_bib, bib, n)

\* if bib: out["by_bib"][bib] = page_num
AddBib(by_bib, bib, n) == Put(by_bib, bib, n)

\* the last-resort rule runs only when neither a bib nor a name was found
UseTitleRule(pg) == pg.bib = None /\ pg.name = None

\* one iteration of the page loop on a readable page
IndexPage(o, n, pg) ==
    LET o1 == IF pg.bib # None
              THEN [o EXCEPT !.by_bib = AddBib(@, pg.bib, n)] ELSE o
        o2 == IF pg.name # None
              THEN [o1 EXCEPT !.by_name = AddName(@, norm(pg.name), n)] ELSE o1
        o3 == IF UseTitleRule(pg) /\ pg.title # None
              THEN [o2 EXCEPT !.by_name = AddName(@, norm(pg.title), n)] ELSE o2
    IN  o3

FirstPage == 1

\* the loop of crea_indice: an exception leaves the loop and out is returned
RECURSIVE IndexFrom(_, _, _)
IndexFrom(o, d, n) ==
    IF n - FirstPage + 1 > Len(d) THEN o
    ELSE IF d[n - FirstPage + 1].throws THEN o
    ELSE IndexFrom(IndexPage(o, n, d[n - FirstPage + 1]), d, n + 1)

CreaIndice(d) == IndexFrom(EmptyIndex, d, FirstPage)

\* --------------------------------------------------------------- resolver
IsDigit(s) == s # <<>> /\ \A i \in DOMAIN s : s[i] \in Digits

\* qn in key
Contains(key, qn) ==
    \E i \in 0..(Len(key) - Len(qn)) : SubSeq(key, i + 1, i + Len(qn)) = qn

Min(S) == CHOOSE x \in S : \A y \in S : x <= y

\* sorted(set(pages))
RECURSIVE Sorted(_)
Sorted(S) == IF S = {} THEN <<>> ELSE <<Min(S)>> \o Sorted(S \ {Min(S)})

\* pages.extend(vals) for every key that contains qn, then sorted(set(pages))
SubstringPages(by_name, qn) ==
    Sorted(UNION {SeqElems(by_name[i].v) : i \in {j \in DOMAIN by_name : Contains(by_name[j].k, qn)}})

ExactPagesWithSubstrings(by_name, qn) ==
    IF Has(by_name, qn) THEN SubstringPages(by_name, qn) ELSE <<>>

ExactPages(by_name, qn) == IF Has(by_name, qn) THEN Get(by_name, qn) ELSE <<>>

NoResolution == [kind |-> "none", page |-> 0, pages |-> <<>>, path |-> "none"]

PickLastPage(pages) == pages[Len(pages)]

\* pages[0] when one page is to be returned
PickPage(pages) == pages[1]

NameResolution(by_name, q, fo) ==
    LET qn == norm(q)
        exact == ExactPages(by_name, qn)
        pages == IF exact # <<>> THEN exact ELSE SubstringPages(by_name, qn)
        path == IF exact # <<>> THEN "exact" ELSE "substring"
    IN  IF pages = <<>>
        THEN [kind |-> "notfound", page |-> 0, pages |-> <<>>, path |-> path]
        ELSE IF Len(pages) > 1 /\ ~fo
        THEN [kind |-> "multiple", page |-> 0, pages |-> pages, path |-> path]
        ELSE [kind |-> "single", page |-> PickPage(pages), pages |-> pages, path |-> path]

BibMatch(by_bib, q) == IsDigit(q) /\ Has(by_bib, q)

\* a resolver that looks the name up first and falls back to the bib
ResolveNameFirst(ix, q, fo) ==
    IF NameResolution(ix.by_name, q, fo).kind # "notfound"
    THEN NameResolution(ix.by_name, q, fo)
    ELSE IF BibMatch(ix.by_bib, q)
    THEN [kind |-> "single", page |-> Get(ix.by_bib, q), pages |-> <<>>, path |-> "bib"]
    ELSE NameResolution(ix.by_name, q, fo)

\* the resolution part of cerca_attestato
Resolve(ix, q, fo) ==
    IF BibMatch(ix.by_bib, q)
    THEN [kind |-> "single", page |-> Get(ix.by_bib, q), pages |-> <<>>, path |-> "bib"]
    ELSE NameResolution(ix.by_name, q, fo)

Queries ==
    { B7, B12,
      <<"A", "L">>,
      <<"a", "l", " ", "b", "o">>,
      <<agrave, "l", " ", " ", "B", "O">>,
      <<"D", "'", "A", "L", " ", "B", "O">>,
      <<"'">>,
      <<"z", "z">> }

\* ------------------------------------------------------------------ store
\* A file is a record; index.json holds the tokens json.dump has written so far.
NoPdf == [exists |-> FALSE, doc |-> <<>>, complete |-> FALSE]
NoIndexFile == [exists |-> FALSE, content |-> <<>>]

Tok(t, k, v) == [t |-> t, k |-> k, v |-> v]
OpenBrace == Tok("{", <<>>, <<>>)
CloseBrace == Tok("}", <<>>, <<>>)
Nul == Tok("nul", <<>>, <<>>)

\* json.dump(indice, f): the text as the sequence of chunks written to the file
Dump(ix) ==
    <<OpenBrace>>
    \o [i \in DOMAIN ix.by_bib |-> Tok("bib", ix.by_bib[i].k, <<ix.by_bib[i].v>>)]
    \o [i \in DOMAIN ix.by_name |-> Tok("name", ix.by_name[i].k, ix.by_name[i].v)]
    \o <<CloseBrace>>

\* whether json.load accepts the text
WellFormed(c) ==
    /\ Len(c) >= 2
    /\ c[1] = OpenBrace
    /\ c[Len(c)] = CloseBrace
    /\ \A i \in 2..(Len(c) - 1) : c[i].t \in {"bib", "name"}
    /\ \A i, j \in 2..(Len(c) - 1) : (i < j /\ c[i].t = "name") => c[j].t = "name"

\* json.load on an accepted text: a repeated key keeps its last value
RECURSIVE LoadFrom(_, _, _)
LoadFrom(ix, c, i) ==
    IF i >= Len(c) THEN ix
    ELSE LoadFrom(
            IF c[i].t = "bib"
            THEN [ix EXCEPT !.by_bib = Put(@, c[i].k, c[i].v[1])]
            ELSE [ix EXCEPT !.by_name = Put(@, c[i].k, c[i].v)],
            c, i + 1)

\* carica_indice: the empty index without a file, an exception on a bad text
CaricaIndice(f) ==
    IF ~f.exists THEN [ok |-> TRUE, index |-> EmptyIndex]
    ELSE IF WellFormed(f.content) THEN [ok |-> TRUE, index |-> LoadFrom(EmptyIndex, f.content, 2)]
    ELSE [ok |-> FALSE, index |-> EmptyIndex]

\* open(path, "a"): the file is kept and every write goes to its end
OpenForAppend(f) == [file |-> [exists |-> TRUE, content |-> f.content], pos |-> Len(f.content) + 1]

\* open(path, "w"): the file is created or truncated, the offset is at its start
OpenForWrite(f) == [file |-> [exists |-> TRUE, content |-> <<>>], pos |-> 1]

\* one write(2) of chunk at offset pos; a gap past the end reads as NULs
WriteAt(c, pos, chunk) ==
    LET last == pos + Len(chunk) - 1
    IN  [i \in 1..(IF last > Len(c) THEN last ELSE Len(c)) |->
            IF i >= pos /\ i <= last THEN chunk[i - pos + 1]
            ELSE IF i <= Len(c) THEN c[i] ELSE Nul]

\* the buffered writer hands the text to write(2) in pieces of this many tokens
ChunkTokens == 3

\* the next piece of text after the first `written` tokens
NextChunk(text, written) ==
    SubSeq(text, written + 1, IF written + ChunkTokens > Len(text) THEN Len(text) ELSE written + ChunkTokens)

\* ------------------------------------------------------- collection ids
ID_A == <<"a">>
ID_A_DOT == <<"a", "/", ".">>
ID_DASH == <<"a", "-", "b">>
ID_EMPTY == <<>>
Ids == {ID_A, ID_A_DOT, ID_DASH, ID_EMPTY}

IdChars == {"a", "b", "_", "7"}

\* re.match(r'^[a-zA-Z0-9_]+$', gara_id)
IsValidId(id) == id # <<>> /\ \A i \in DOMAIN id : id[i] \in IdChars

\* os.path.join(UPLOAD_FOLDER, gara_id) as the file system resolves it: the
\* path components of gara_id without the "." and empty ones
RECURSIVE Components(_, _)
Components(id, cur) ==
    IF id = <<>> THEN <<cur>>
    ELSE IF id[1] = "/" THEN <<cur>> \o Components(Tail(id), <<>>)
    ELSE Components(Tail(id), Append(cur, id[1]))

GetGaraFolder(id) == SelectSeq(Components(id, <<>>), LAMBDA c : c # <<>> /\ c # <<".">>)

Folders == {GetGaraFolder(id) : id \in Ids \ {ID_EMPTY}}

\* ------------------------------------------------------------- requests
Procs == {"p1", "p2"}

PageOf(b, n) == [throws |-> FALSE, bib |-> b, name |-> n, title |-> None]
DocOne == <<PageOf(B7, N_ALBO)>>
DocTwo == <<PageOf(B7, N_DALBO), PageOf(B12, N_ALBO)>>
Uploads == {DocOne, DocTwo}

CercaQueries == {B7, <<"A", "L">>}

\* upload and reindex need a token, cerca and singola_pagina do not: every client
\* may upload and reindex, and the queries come from the clients of Public
Public == {"p2"}

NoReq ==
    [op |-> "none", gara_id |-> <<>>, file |-> <<>>, query |-> <<>>, first_only |-> FALSE,
     page |-> 0, indice |-> EmptyIndex, pos |-> 0, written |-> 0, before |-> NoIndexFile, touched |-> FALSE]
NoResp ==
    [status |-> 0, bib |-> 0, name |-> 0, result |-> NoResolution, error |-> "none",
     sent |-> FALSE, buf |-> <<>>]

Reply(status, error) == [NoResp EXCEPT !.status = status, !.error = error]

\* no other request is in flight
Alone(p) == \A q \in Procs \ {p} : pc[q] = "idle"

\* the name fallback has not been called
NoFallback == [done |-> FALSE, name |-> None]

NameOff ==
    /\ lines = <<>>
    /\ fallback = NoFallback

SysInit ==
    /\ pdf = [f \in Folders |-> NoPdf]
    /\ index_file = [f \in Folders |-> NoIndexFile]
    /\ pc = [p \in Procs |-> "idle"]
    /\ req = [p \in Procs |-> NoReq]
    /\ resp = [p \in Procs |-> NoResp]

Finish(p, r) ==
    /\ pc' = [pc EXCEPT ![p] = "done"]
    /\ resp' = [resp EXCEPT ![p] = r]

\* estrai_pagina: None unless the document opens and the page is in range
EstraiPaginaOffByOne(file, n) ==
    file.exists /\ file.complete /\ n - 1 >= 0 /\ n - 1 <= Len(file.doc)

EstraiPagina(file, n) ==
    file.exists /\ file.complete /\ n - 1 >= 0 /\ n - 1 < Len(file.doc)

\* out_doc.insert_pdf(doc, from_page, to_page): the pages of doc at the 0-based
\* positions from_page..to_page that doc has
InsertPdf(d, from_page, to_page) ==
    LET lo == (IF from_page < 0 THEN 0 ELSE from_page) + 1
        hi == (IF to_page > Len(d) - 1 THEN Len(d) - 1 ELSE to_page) + 1
    IN  IF lo > hi THEN <<>> ELSE SubSeq(d, lo, hi)

\* send_file(pdf_buffer): the one-page document goes out with status 200
SendPage(r, file, n) ==
    [r EXCEPT !.status = 200, !.sent = TRUE, !.buf = InsertPdf(file.doc, n - 1, n - 1)]

\* upload_pdf, lines 227-236: the checks on gara_id
UploadStart(p) ==
    /\ pc[p] = "idle"
    /\ \E id \in Ids, d \in Uploads :
          /\ req' = [req EXCEPT ![p] = [NoReq EXCEPT !.op = "upload", !.gara_id = id, !.file = d]]
          /\ IF id = <<>> THEN Finish(p, Reply(400, "id_required"))
             ELSE IF ~IsValidId(id) THEN Finish(p, Reply(400, "id_invalid"))
             ELSE pc' = [pc EXCEPT ![p] = "u_save"] /\ resp' = resp
    /\ UNCHANGED <<pdf, index_file, bvars, rvars, nvars>>

\* upload_pdf, lines 238-241: file.save opens attestati.pdf for writing ...
UploadSaveOpen(p) ==
    /\ pc[p] = "u_save"
    /\ pdf' = [pdf EXCEPT ![GetGaraFolder(req[p].gara_id)] =
                  [exists |-> TRUE, doc |-> req[p].file, complete |-> FALSE]]
    /\ req' = [req EXCEPT ![p].touched = TRUE]
    /\ pc' = [pc EXCEPT ![p] = "u_saving"]
    /\ UNCHANGED <<index_file, resp, bvars, rvars, nvars>>

\* ... and copies the upload into it
UploadSaveClose(p) ==
    /\ pc[p] = "u_saving"
    /\ pdf' = [pdf EXCEPT ![GetGaraFolder(req[p].gara_id)] =
                  [exists |-> TRUE, doc |-> req[p].file, complete |-> TRUE]]
    /\ pc' = [pc EXCEPT ![p] = "index"]
    /\ UNCHANGED <<index_file, req, resp, bvars, rvars, nvars>>

\* reindex, lines 258-264
ReindexStart(p) ==
    /\ pc[p] = "idle"
    /\ \E id \in Ids :
          IF id = <<>>
          THEN /\ req' = [req EXCEPT ![p] = [NoReq EXCEPT !.op = "reindex", !.gara_id = id]]
               /\ Finish(p, Reply(400, "id_required"))
          ELSE /\ req' = [req EXCEPT ![p] =
                            [NoReq EXCEPT !.op = "reindex", !.gara_id = id, !.touched = TRUE,
                                          !.before = IF Alone(p) THEN index_file[GetGaraFolder(id)]
                                                     ELSE NoIndexFile]]
               /\ IF ~pdf[GetGaraFolder(id)].exists
                  THEN Finish(p, Reply(404, "no_pdf"))
                  ELSE pc' = [pc EXCEPT ![p] = "index"] /\ resp' = resp
    /\ UNCHANGED <<pdf, index_file, bvars, rvars, nvars>>

\* indice = crea_indice(path): a document that does not open gives the empty index
BuildIndice(p) ==
    /\ pc[p] = "index"
    /\ LET file == pdf[GetGaraFolder(req[p].gara_id)]
       IN  req' = [req EXCEPT ![p].indice =
                      IF file.exists /\ file.complete THEN CreaIndice(file.doc) ELSE EmptyIndex]
    /\ pc' = [pc EXCEPT ![p] = "s_open"]
    /\ UNCHANGED <<pdf, index_file, resp, bvars, rvars, nvars>>

\* salva_indice, line 68: open(index.json, "w")
SalvaOpen(p) ==
    /\ pc[p] = "s_open"
    /\ LET f == GetGaraFolder(req[p].gara_id)
           o == OpenForWrite(index_file[f])
       IN  /\ index_file' = [index_file EXCEPT ![f] = o.file]
           /\ req' = [req EXCEPT ![p].pos = o.pos, ![p].written = 0]
    /\ pc' = [pc EXCEPT ![p] = "s_write"]
    /\ UNCHANGED <<pdf, resp, bvars, rvars, nvars>>

\* salva_indice, line 69: json.dump writes the next chunk of the text
SalvaWrite(p) ==
    /\ pc[p] = "s_write"
    /\ LET f == GetGaraFolder(req[p].gara_id)
           text == Dump(req[p].indice)
           chunk == NextChunk(text, req[p].written)
       IN  /\ req[p].written < Len(text)
           /\ index_file' = [index_file EXCEPT ![f].content = WriteAt(@, req[p].pos, chunk)]
           /\ req' = [req EXCEPT ![p].pos = @ + Len(chunk), ![p].written = @ + Len(chunk)]
    /\ UNCHANGED <<pdf, pc, resp, bvars, rvars, nvars>>

\* salva_indice returns (the file is closed); upload_pdf answers 201, reindex 200
SalvaClose(p) ==
    /\ pc[p] = "s_write"
    /\ req[p].written = Len(Dump(req[p].indice))
    /\ Finish(p, [NoResp EXCEPT !.status = IF req[p].op = "upload" THEN 201 ELSE 200,
                                !.bib = Len(req[p].indice.by_bib),
                                !.name = Len(req[p].indice.by_name)])
    /\ UNCHANGED <<pdf, index_file, req, bvars, rvars, nvars>>

\* cerca_attestato, lines 278-289
CercaStart(p) ==
    /\ pc[p] = "idle"
    /\ p \in Public
    /\ \E id \in Ids, q \in CercaQueries, fo \in BOOLEAN :
          LET r == [NoReq EXCEPT !.op = "cerca", !.gara_id = id, !.query = q, !.first_only = fo]
          IN  IF id = <<>>
              THEN req' = [req EXCEPT ![p] = r] /\ Finish(p, Reply(400, "id_required"))
              ELSE /\ req' = [req EXCEPT ![p] = [r EXCEPT !.touched = TRUE]]
                   /\ IF ~pdf[GetGaraFolder(id)].exists
                      THEN Finish(p, Reply(404, "no_pdf"))
                      ELSE pc' = [pc EXCEPT ![p] = "c_load"] /\ resp' = resp
    /\ UNCHANGED <<pdf, index_file, bvars, rvars, nvars>>

\* cerca_attestato, lines 291-326: carica_indice, then the resolution
CercaLoad(p) ==
    /\ pc[p] = "c_load"
    /\ LET got == CaricaIndice(index_file[GetGaraFolder(req[p].gara_id)])
           res == Resolve(got.index, req[p].query, req[p].first_only)
       IN  IF ~got.ok
           THEN Finish(p, Reply(500, "json_decode")) /\ req' = req
           ELSE /\ req' = [req EXCEPT ![p].indice = got.index, ![p].page = res.page]
                /\ IF res.kind = "notfound"
                   THEN Finish(p, [Reply(404, "not_found") EXCEPT !.result = res])
                   ELSE IF res.kind = "multiple"
                   THEN Finish(p, [Reply(200, "none") EXCEPT !.result = res])
                   ELSE /\ pc' = [pc EXCEPT ![p] = "c_extract"]
                        /\ resp' = [resp EXCEPT ![p] = [NoResp EXCEPT !.result = res]]
    /\ UNCHANGED <<pdf, index_file, bvars, rvars, nvars>>

\* cerca_attestato, lines 297-305 and 329-338: estrai_pagina and the answer
CercaExtract(p) ==
    /\ pc[p] = "c_extract"
    /\ IF EstraiPagina(pdf[GetGaraFolder(req[p].gara_id)], req[p].page)
       THEN Finish(p, SendPage(resp[p], pdf[GetGaraFolder(req[p].gara_id)], req[p].page))
       ELSE Finish(p, [resp[p] EXCEPT !.status = 500, !.error = "extract"])
    /\ UNCHANGED <<pdf, index_file, req, bvars, rvars, nvars>>

SinglePages == (0 - 1)..(Len(DocTwo) + 1)

\* singola_pagina, lines 344-362
SingolaPagina(p) ==
    /\ pc[p] = "idle"
    /\ p \in Public
    /\ \E id \in Ids, n \in SinglePages :
          LET r == [NoReq EXCEPT !.op = "singola", !.gara_id = id, !.page = n]
          IN  IF id = <<>> \/ n = 0
              THEN req' = [req EXCEPT ![p] = r] /\ Finish(p, Reply(400, "missing"))
              ELSE /\ req' = [req EXCEPT ![p] = [r EXCEPT !.touched = TRUE]]
                   /\ IF ~pdf[GetGaraFolder(id)].exists
                      THEN Finish(p, Reply(404, "no_pdf"))
                      ELSE IF EstraiPagina(pdf[GetGaraFolder(id)], n)
                      THEN Finish(p, SendPage(NoResp, pdf[GetGaraFolder(id)], n))
                      ELSE Finish(p, Reply(500, "extract"))
    /\ UNCHANGED <<pdf, index_file, bvars, rvars, nvars>>

\* the response has been sent
Return(p) ==
    /\ pc[p] = "done"
    /\ pc' = [pc EXCEPT ![p] = "idle"]
    /\ req' = [req EXCEPT ![p] = NoReq]
    /\ resp' = [resp EXCEPT ![p] = NoResp]
    /\ UNCHANGED <<pdf, index_file, bvars, rvars, nvars>>

Step(p) ==
    \/ UploadStart(p) \/ UploadSaveOpen(p) \/ UploadSaveClose(p)
    \/ ReindexStart(p) \/ BuildIndice(p)
    \/ SalvaOpen(p) \/ SalvaWrite(p) \/ SalvaClose(p)
    \/ CercaStart(p) \/ CercaLoad(p) \/ CercaExtract(p)
    \/ SingolaPagina(p)
    \/ Return(p)

BuilderOff ==
    /\ doc = <<>>
    /\ page_num = FirstPage
    /\ out = EmptyIndex
    /\ bstate = "off"
    /\ idx = EmptyIndex
    /\ query = <<>>
    /\ first_only = FALSE
    /\ resolution = NoResolution

Init == BuilderOff /\ SysInit /\ NameOff

\* request handlers run in the threads of the server, interleaved at their file operations
Next == \E p \in Procs : Step(p)

Spec == Init /\ [][Next]_vars

\* one request at a time
SeqNext ==
    \E p \in Procs :
        \/ (Alone(p) /\ UploadStart(p))
        \/ (Alone(p) /\ UploadSaveOpen(p))
        \/ (Alone(p) /\ UploadSaveClose(p))
        \/ (Alone(p) /\ ReindexStart(p))
        \/ (Alone(p) /\ BuildIndice(p))
        \/ (Alone(p) /\ SalvaOpen(p))
        \/ (Alone(p) /\ SalvaWrite(p))
        \/ (Alone(p) /\ SalvaClose(p))
        \/ (Alone(p) /\ CercaStart(p))
        \/ (Alone(p) /\ CercaLoad(p))
        \/ (Alone(p) /\ CercaExtract(p))
        \/ (Alone(p) /\ SingolaPagina(p))
        \/ (Alone(p) /\ Return(p))

SpecSeq == Init /\ [][SeqNext]_vars

\* ------------------------------------------------- builder specification
BuildInit ==
    /\ doc \in Docs
    /\ page_num = FirstPage
    /\ out = EmptyIndex
    /\ bstate = "loop"
    /\ idx = EmptyIndex
    /\ query = <<>>
    /\ first_only = FALSE
    /\ resolution = NoResolution
    /\ SysInit
    /\ NameOff

CurIdx == page_num - FirstPage + 1

BuildPage ==
    /\ bstate = "loop"
    /\ CurIdx <= Len(doc)
    /\ ~doc[CurIdx].throws
    /\ out' = IndexPage(out, page_num, doc[CurIdx])
    /\ page_num' = page_num + 1
    /\ UNCHANGED <<doc, bstate, rvars, svars, nvars>>

BuildThrow ==
    /\ bstate = "loop"
    /\ CurIdx <= Len(doc)
    /\ doc[CurIdx].throws
    /\ bstate' = "done"
    /\ idx' = out
    /\ UNCHANGED <<doc, page_num, out, query, first_only, resolution, svars, nvars>>

BuildReturn ==
    /\ bstate = "loop"
    /\ CurIdx > Len(doc)
    /\ bstate' = "done"
    /\ idx' = out
    /\ UNCHANGED <<doc, page_num, out, query, first_only, resolution, svars, nvars>>

ResolveQuery ==
    /\ bstate = "done"
    /\ resolution = NoResolution
    /\ \E q \in Queries, fo \in BOOLEAN :
          /\ query' = q
          /\ first_only' = fo
          /\ resolution' = Resolve(idx, q, fo)
    /\ UNCHANGED <<bvars, idx, svars, nvars>>

BuildNext == BuildPage \/ BuildThrow \/ BuildReturn \/ ResolveQuery

SpecBuild == BuildInit /\ [][BuildNext]_vars

\* ------------------------------------------------ resolver specification
\* Indexes as the store can hand them to the resolver: by_bib maps digit
\* strings to pages, by_name maps keys to non-empty increasing page lists.
K_ALBO == <<"a", "l", " ", "b", "o">>
K_DALBO == <<"d", " ", "a", "l", " ", "b", "o">>
K_7 == <<"7">>
K_7AL == <<"7", " ", "a", "l">>
NameKeySeq == <<K_ALBO, K_DALBO, K_7, K_7AL>>
BibKeySeq == <<B7, B12>>

\* the dict whose keys are keySeq[i], i in DOMAIN f, in the order of keySeq
MkDict(keySeq, f) ==
    LET ord == Sorted(DOMAIN f)
    IN  [i \in 1..Len(ord) |-> [k |-> keySeq[ord[i]], v |-> f[ord[i]]]]

PageLists == {Sorted(S) : S \in (SUBSET (1..MaxPages)) \ {{}}}

DictsOver(keySeq, Vals, S) == {MkDict(keySeq, f) : f \in [S -> Vals]}

AnyIndexes ==
    [by_bib : UNION {DictsOver(BibKeySeq, 1..MaxPages, S) : S \in SUBSET (DOMAIN BibKeySeq)},
     by_name : UNION {DictsOver(NameKeySeq, PageLists, S) :
                        S \in {T \in SUBSET (DOMAIN NameKeySeq) : Cardinality(T) <= 2}}]

ResolveInit ==
    /\ doc = <<>>
    /\ page_num = FirstPage
    /\ out = EmptyIndex
    /\ bstate = "done"
    /\ idx \in AnyIndexes
    /\ query = <<>>
    /\ first_only = FALSE
    /\ resolution = NoResolution
    /\ SysInit
    /\ NameOff

ResolveNext == ResolveQuery

SpecResolve == ResolveInit /\ [][ResolveNext]_vars

\* ------------------------------------------------------------ name fallback
\* extract_name_fallback_near_pettorale works on the lines of the page text
\* (text.splitlines()); a line is a string.
LABELS_STOP ==
    {<<"A", "T", "T", "E", "S", "T", "A", "T", "O", " ", "D", "I", " ", "P", "A", "R", "T", "E", "C", "I", "P", "A", "Z", "I", "O", "N", "E">>,
     <<"N", "O", "M", "E">>,
     <<"N", "U", "M", "E", "R", "O", " ", "P", "E", "T", "T", "O", "R", "A", "L", "E">>,
     <<"P", "O", "S", "I", "Z", "I", "O", "N", "E", " ", "A", "S", "S", "O", "L", "U", "T", "A">>,
     <<"P", "O", "S", "I", "Z", "I", "O", "N", "E", " ", "C", "A", "T", "E", "G", "O", "R", "I", "A">>,
     <<"G", "A", "R", "A", "/", "T", "E", "M", "P", "O">>,
     <<"C", "E", "R", "T", "I", "F", "I", "C", "A", "T", "E", "S">>}

PETTORALE == <<"p", "e", "t", "t", "o", "r", "a", "l", "e">>

\* re.search(r"pettorale", ln, flags=re.IGNORECASE)
HasPettorale(ln) == Contains(Lower(ln), PETTORALE)

\* idxs: the 0-based indexes of the lines with "pettorale", in increasing order
Idxs(ls) == Sorted({i - 1 : i \in {j \in DOMAIN ls : HasPettorale(ls[j])}})

\* s[start:end] for 0 <= start and end <= len(s): end is excluded
Slice(s, start, end) == IF start >= end THEN <<>> ELSE SubSeq(s, start + 1, end)

\* start = max(0, i - 5)
WindowStart(i) == IF i - 5 > 0 THEN i - 5 ELSE 0

WindowEndPastSix(n, i) == IF i + 7 < n THEN i + 7 ELSE n

\* end = min(len(lines), i + 6)
WindowEnd(n, i) == IF i + 6 < n THEN i + 6 ELSE n

\* for i in idxs[:1]: window_lines.extend(lines[start:end])
WindowLines(ls) ==
    LET idxs == Idxs(ls)
    IN  IF idxs = <<>> THEN <<>>
        ELSE Slice(ls, WindowStart(idxs[1]), WindowEnd(Len(ls), idxs[1]))

\* the characters of [A-Z\u00C0-\u0178' \-] that the model has
NameChars == SeqElems(Uppers) \cup {AGRAVE, "'", " ", "-"}

\* str.split(): the maximal runs of non-blank characters
RECURSIVE Split(_)
Split(s) ==
    LET t == LStrip(s)
    IN  IF t = <<>> THEN <<>>
        ELSE LET n == IF \E i \in DOMAIN t : t[i] = " "
                      THEN Min({i \in DOMAIN t : t[i] = " "})
                      ELSE Len(t) + 1
             IN  <<SubSeq(t, 1, n - 1)>> \o Split(SubSeq(t, n, Len(t)))

is_caps_candidate(s) ==
    LET s2 == Strip(CollapseWs(s))
        su == Upper(s2)
        words == SelectSeq(Split(su), LAMBDA w : Len(w) >= 2)
    IN  /\ s2 # <<>>
        /\ su \notin LABELS_STOP
        /\ Len(su) >= 6 /\ \A i \in DOMAIN su : su[i] \in NameChars
        /\ Len(words) >= 2

\* caps = [ln.strip() for ln in window_lines if is_caps_candidate(ln)]
Caps(window_lines) ==
    LET kept == SelectSeq(window_lines, is_caps_candidate)
    IN  [i \in DOMAIN kept |-> Strip(kept[i])]

Abs(x) == IF x < 0 THEN 0 - x ELSE x

\* caps.sort(key=lambda s: abs(len(s) - 18)); caps[0]: the sort is stable, so
\* the first of the lines with the least key
SortedFirst(caps) ==
    caps[Min({i \in DOMAIN caps :
                \A j \in DOMAIN caps : Abs(Len(caps[i]) - 18) <= Abs(Len(caps[j]) - 18)})]

extract_name_fallback_near_pettorale(ls) ==
    LET caps == Caps(WindowLines(ls))
    IN  IF caps # <<>> THEN SortedFirst(caps) ELSE None

\* the lines of a certificate page: the label, a line that is not name-shaped
\* and two names, the first with blanks around and inside it
L_LABEL == <<"N", "u", "m", "e", "r", "o", " ", "P", "e", "t", "t", "o", "r", "a", "l", "e">>
L_OTHER == <<"G", "A", "R", "A", " ", "1", "0", " ", "K", "M">>
L_ANNA == <<" ", "A", "N", "N", "A", " ", " ", "B", "O", " ">>
L_MARIO == <<"M", "A", "R", "I", "O", " ", "R", "O", "S", "S", "I">>
NameLines == {L_ANNA, L_MARIO}

\* the text of n lines with the label at l1 and l2, the name k1 at c1 and the
\* name k2 at c2 (position 0: nowhere)
MkText(n, l1, l2, c1, k1, c2, k2) ==
    [i \in 1..n |-> IF i \in {l1, l2} THEN L_LABEL
                    ELSE IF i = c1 THEN k1
                    ELSE IF i = c2 THEN k2
                    ELSE L_OTHER]

\* texts of up to MaxLines lines with at most two label lines and two names
NameInit ==
    /\ BuilderOff
    /\ SysInit
    /\ \E n \in 0..MaxLines :
          \E l1 \in 0..n, l2 \in 0..n :
             /\ (l2 = 0 /\ l1 = 0) \/ l1 < l2
             /\ \E c1 \in 0..n, c2 \in 0..n :
                   /\ (c2 = 0 /\ c1 = 0) \/ c1 < c2
                   /\ \E k1 \in NameLines, k2 \in NameLines :
                         /\ c1 = 0 => k1 = L_ANNA
                         /\ c2 = 0 => k2 = L_ANNA
                         /\ lines = MkText(n, l1, l2, c1, k1, c2, k2)
    /\ fallback = NoFallback

ExtractNameFallback ==
    /\ ~fallback.done
    /\ fallback' = [done |-> TRUE, name |-> extract_name_fallback_near_pettorale(lines)]
    /\ UNCHANGED <<lines, bvars, rvars, svars>>

NameNext == ExtractNameFallback

SpecName == NameInit /\ [][NameNext]_vars

\* ================================================================ claims
PageNo(i) == i + FirstPage - 1
Max(S) == CHOOSE x \in S : \A y \in S : x >= y
StrictlyIncreasing(s) == \A i, j \in DOMAIN s : i < j => s[i] < s[j]
Resolved == resolution.kind # "none"

\* C3 (as claimed): when page.get_text() raises on page k only page k is
\* skipped, so the returned index holds the bib and the name of every readable
\* page, those after k included.
C3_OnlyThrowingPageSkipped ==
    bstate = "done" =>
        \A i \in DOMAIN doc :
            ~doc[i].throws =>
                /\ doc[i].bib # None => Has(idx.by_bib, doc[i].bib)
                /\ doc[i].name # None =>
                      /\ Has(idx.by_name, norm(doc[i].name))
                      /\ PageNo(i) \in SeqElems(Get(idx.by_name, norm(doc[i].name)))

\* the pages the loop of crea_indice ran the extractors on
Processed == {i \in DOMAIN doc : i < CurIdx}
ExtractedOn(b) == {PageNo(i) : i \in {j \in Processed : doc[j].bib = b}}

\* C8: in the returned index by_bib[b] is the highest page on which bib b was
\* extracted, and by_bib has exactly the bibs that were extracted.
C8_LastPageWinsBib ==
    bstate = "done" =>
        /\ Keys(idx.by_bib) = {doc[i].bib : i \in Processed} \ {None}
        /\ \A b \in Keys(idx.by_bib) : Get(idx.by_bib, b) = Max(ExtractedOn(b))

C8_Witness ==
    /\ bstate = "done"
    /\ \E b \in Bibs : Cardinality(ExtractedOn(b)) >= 2 /\ Has(idx.by_bib, b)

\* C9: at every step of the build and in its result every by_name value is a
\* strictly increasing list of pages within [1, page_count].
NameListsOk(ix) ==
    \A i \in DOMAIN ix.by_name :
        /\ StrictlyIncreasing(ix.by_name[i].v)
        /\ SeqElems(ix.by_name[i].v) \subseteq 1..Len(doc)

C9_NameListsOrdered == NameListsOk(out) /\ (bstate = "done" => NameListsOk(idx))

\* a key fed by the name extractor on one page and by the Title-Case rule on another
C9_Witness ==
    /\ bstate = "done"
    /\ \E i, j \in Processed :
          /\ doc[i].name # None /\ doc[j].name = None /\ doc[j].bib = None
          /\ doc[j].title # None /\ norm(doc[i].name) = norm(doc[j].title)
          /\ Has(idx.by_name, norm(doc[i].name))
          /\ {PageNo(i), PageNo(j)} \subseteq SeqElems(Get(idx.by_name, norm(doc[i].name)))

\* the candidate pages of a name query, as a set
CandidateSet(by_name, qn) ==
    IF \E i \in DOMAIN by_name : by_name[i].k = qn /\ by_name[i].v # <<>>
    THEN UNION {SeqElems(by_name[i].v) : i \in {j \in DOMAIN by_name : by_name[j].k = qn}}
    ELSE UNION {SeqElems(by_name[i].v) : i \in {j \in DOMAIN by_name : Contains(by_name[j].k, qn)}}

NameQuery == Resolved /\ ~(IsDigit(query) /\ query \in Keys(idx.by_bib))

\* C7: on an index the builder produced, a name query with candidate pages P
\* yields Multiple(P ascending) when |P| > 1 and first_only is false, otherwise
\* Single(lowest page of P); an empty P yields NotFound.
C7_MultipleOrLowest ==
    NameQuery =>
        LET P == CandidateSet(idx.by_name, norm(query))
        IN  /\ P = {} => resolution.kind = "notfound"
            /\ (Cardinality(P) > 1 /\ ~first_only) =>
                  resolution.kind = "multiple" /\ resolution.pages = Sorted(P)
            /\ (P # {} /\ (Cardinality(P) = 1 \/ first_only)) =>
                  resolution.kind = "single" /\ resolution.page = Min(P)

C7_Witness ==
    /\ NameQuery /\ doc # <<>> /\ first_only
    /\ Cardinality(CandidateSet(idx.by_name, norm(query))) > 1
    /\ resolution.kind = "single"

\* C5: a query made of digits only that is a key of by_bib resolves to the
\* single page by_bib[query], whatever by_name holds.
C5_BibShortCircuits ==
    (Resolved /\ IsDigit(query) /\ query \in Keys(idx.by_bib)) =>
        /\ resolution.kind = "single"
        /\ resolution.page = Get(idx.by_bib, query)
        /\ resolution.path = "bib"
        /\ resolution = Resolve([idx EXCEPT !.by_name = <<>>], query, first_only)

\* the query is also a by_name key, and a substring of another key, on other pages
C5_Witness ==
    /\ Resolved /\ IsDigit(query) /\ query \in Keys(idx.by_bib)
    /\ Has(idx.by_name, norm(query))
    /\ Get(idx.by_bib, query) \notin SeqElems(Get(idx.by_name, norm(query)))
    /\ \E i \in DOMAIN idx.by_name :
          idx.by_name[i].k # norm(query) /\ Contains(idx.by_name[i].k, norm(query))

\* C6: for a query not resolved as a bib, an exact by_name key gives exactly
\* that key's pages; only without one does the substring fallback run, giving
\* the sorted duplicate-free union of the pages of every key containing it.
C6_ExactBeforeSubstring ==
    NameQuery =>
        LET qn == norm(query)
            bn == idx.by_name
        IN  IF qn \in Keys(bn)
            THEN resolution.path = "exact" /\ resolution.pages = Get(bn, qn)
            ELSE /\ resolution.path = "substring"
                 /\ StrictlyIncreasing(resolution.pages)
                 /\ SeqElems(resolution.pages) =
                      UNION {SeqElems(bn[i].v) : i \in {j \in DOMAIN bn : Contains(bn[j].k, qn)}}

\* an exact key, and another key that contains the query on a page of its own
C6_Witness ==
    /\ NameQuery /\ Has(idx.by_name, norm(query))
    /\ \E i \in DOMAIN idx.by_name :
          /\ idx.by_name[i].k # norm(query)
          /\ Contains(idx.by_name[i].k, norm(query))
          /\ ~(SeqElems(idx.by_name[i].v) \subseteq SeqElems(resolution.pages))

\* C1 (as claimed): a query that runs while the index of its collection is
\* being saved reads the whole old or the whole new index and never fails
\* because of the write: no cerca request ends in a JSON decoding error.
C1_QueryNeverSeesTornIndex ==
    \A p \in Procs :
        (pc[p] = "done" /\ req[p].op = "cerca") => resp[p].error # "json_decode"

\* C2 (as claimed): in every state, whenever the document of a collection is
\* stored (so that a query treats the collection as ready) its whole index is
\* stored too.
C2_NeverPartiallyExists ==
    \A f \in Folders :
        pdf[f].exists => (index_file[f].exists /\ WellFormed(index_file[f].content))

\* C4 (as claimed): every operation answers a malformed collection id with a
\* validation error (400) and has not read or written the store for it.
C4_MalformedIdRejected ==
    \A p \in Procs :
        (req[p].op # "none" /\ ~IsValidId(req[p].gara_id)) =>
            /\ ~req[p].touched
            /\ pc[p] = "done" => resp[p].status = 400

\* C10: a reindex that follows the ingest, with no other request in between,
\* leaves index.json exactly as it found it (the text the ingest, or the
\* reindex before it, persisted) and returns the counts of that index.
C10_ReindexIdempotent ==
    \A p \in Procs :
        (pc[p] = "done" /\ req[p].op = "reindex" /\ resp[p].status = 200) =>
            LET f == GetGaraFolder(req[p].gara_id)
                old == CaricaIndice(req[p].before)
            IN  /\ req[p].before.exists /\ old.ok
                /\ index_file[f] = req[p].before
                /\ resp[p].bib = Len(old.index.by_bib)
                /\ resp[p].name = Len(old.index.by_name)

C10_Witness ==
    \E p \in Procs :
        /\ pc[p] = "done" /\ req[p].op = "reindex" /\ resp[p].status = 200
        /\ pdf[GetGaraFolder(req[p].gara_id)].doc = DocTwo
        /\ resp[p].bib = 2 /\ resp[p].name = 2

\* C11: singola_pagina with a page outside [1, page_count] of the stored
\* document answers with a failure and sends no document; with a page inside
\* the range (and a document that opens) it sends exactly that one page; in
\* both cases attestati.pdf and index.json stay as they were.
C11_PageOutOfRangeFails ==
    [][\A p \in Procs :
          (pc[p] = "idle" /\ pc'[p] = "done" /\ req'[p].op = "singola") =>
              /\ pdf' = pdf /\ index_file' = index_file
              /\ req'[p].gara_id = <<>> => ~resp'[p].sent
              /\ req'[p].gara_id # <<>> =>
                    LET n == req'[p].page
                        file == pdf[GetGaraFolder(req'[p].gara_id)]
                    IN  /\ (n < 1 \/ n > Len(file.doc)) =>
                              ~resp'[p].sent /\ resp'[p].status \in {400, 404, 500}
                        /\ (file.exists /\ file.complete /\ n >= 1 /\ n <= Len(file.doc)) =>
                              /\ resp'[p].sent /\ resp'[p].status = 200
                              /\ resp'[p].buf = <<file.doc[n]>>]_vars

\* a page past the end of a stored two-page document was asked for and refused
C11_Witness ==
    \E p \in Procs :
        /\ pc[p] = "done" /\ req[p].op = "singola" /\ req[p].gara_id # <<>>
        /\ pdf[GetGaraFolder(req[p].gara_id)] = [exists |-> TRUE, doc |-> DocTwo, complete |-> TRUE]
        /\ req[p].page = Len(DocTwo) + 1
        /\ resp[p].status = 500 /\ ~resp[p].sent

\* C13 (as claimed): once no ingest or reindex is in flight, the persisted
\* index of every collection that holds a document is the builder's output for
\* that document.
C13_FinalIndexMatchesDocument ==
    (\A p \in Procs : pc[p] \in {"idle", "done"}) =>
        \A f \in Folders :
            pdf[f].exists =>
                LET loaded == CaricaIndice(index_file[f])
                IN  /\ loaded.ok
                    /\ loaded.index = IF pdf[f].complete THEN CreaIndice(pdf[f].doc)
                                      ELSE EmptyIndex

\* the first line (1-based) with "pettorale", 0 when there is none
FirstLabel ==
    IF \E i \in DOMAIN lines : HasPettorale(lines[i])
    THEN Min({i \in DOMAIN lines : HasPettorale(lines[i])})
    ELSE 0

\* the name-shaped lines among the lines lo..hi of the text, and the one of
\* them whose length is closest to 18 (the earliest on a tie), None without one
NameShapedIn(lo, hi) == {j \in lo..hi : j \in DOMAIN lines /\ is_caps_candidate(lines[j])}

ClosestTo18In(lo, hi) ==
    LET pos == NameShapedIn(lo, hi)
        key(j) == Abs(Len(Strip(lines[j])) - 18)
    IN  IF pos = {} THEN None
        ELSE Strip(lines[Min({j \in pos : \A k \in pos : key(j) <= key(k)})])

\* C12 (as claimed): with i the first line containing "pettorale", the name
\* the fallback returns is chosen among the lines i-5 .. i+6 of the text, so a
\* name-shaped line at i+6 is eligible.
C12_WindowFiveBeforeSixAfter ==
    fallback.done =>
        fallback.name = IF FirstLabel = 0 THEN None
                        ELSE ClosestTo18In(FirstLabel - 5, FirstLabel + 6)

\* C12 (amended): with i the first line containing "pettorale", the name the
\* fallback returns is chosen among the lines i-5 .. i+5 of the text (up to 5
\* lines before the label line and up to 5 after it); a name-shaped line at
\* i+6 or at i-6 is not eligible, whatever later "pettorale" line is near it,
\* and without a "pettorale" line nothing is returned.
C12_WindowFiveBeforeFiveAfter ==
    fallback.done =>
        fallback.name = IF FirstLabel = 0 THEN None
                        ELSE ClosestTo18In(FirstLabel - 5, FirstLabel + 5)

\* the only name is 6 lines after the first label line and next to a second
\* label line, and the fallback returned nothing
C12_Witness ==
    /\ fallback.done
    /\ FirstLabel # 0
    /\ NameShapedIn(1, Len(lines)) = {FirstLabel + 6}
    /\ \E j \in (FirstLabel + 1)..Len(lines) : HasPettorale(lines[j])
    /\ fallback.name = None

====
